---- MODULE Spec2Model ----
(***************************************************************************)
(* The AVL tree of src/AvlTree.cpp as a state machine.                     *)
(*                                                                         *)
(* A tree is a nested record: a Node has the fields of class AVL::Node     *)
(* (key, height, left, right) and addr, the identity of the object (its    *)
(* address).  A null pointer is Null.  The public operations of the class  *)
(* are the actions of Spec; the private recursive functions are RECURSIVE  *)
(* operators computed as the code computes them, cached heights included.  *)
(* SpecMenu is the menu loop of src/main.cpp, one action per iteration.    *)
(*                                                                         *)
(* Addresses are opaque to the program, so every call names the nodes it   *)
(* finds by their position (AddrOf) on entry and keeps these names until   *)
(* it returns: pre is the tree on entry, root the tree on return, freed    *)
(* the operands of the delete expressions the call evaluated, in order.    *)
(***************************************************************************)
EXTENDS Integers, Sequences, FiniteSets, TLC

\* Keys are 1..MaxKey (T = int in src/main.cpp; only the order matters).
MaxKey == 6

Keys == 1..MaxKey

\* nullptr
Null == [null |-> TRUE]

\* Outcome of dereferencing a null pointer (new_root->right with new_root
\* == nullptr, a load from a small address): the process is terminated by
\* the fault and the call never returns.
Fault == [fault |-> TRUE]

\* Address given to the node a call allocates (distinct from every AddrOf).
NewAddr == 0

VARIABLES
    root,       \* AVL::root, the tree as the last call left it
    pre,        \* the tree on entry to the last call
    op,         \* the last call: "none", "insert", "remove", "search",
                \* "height" or "display"
    arg,        \* its argument
    freed,      \* addresses passed to delete during the last call, in order
    inserted,   \* history: the keys passed to insert so far
    removed,    \* history: remove has been called at least once
    ret,        \* what the last call returned
    out,        \* the lines the last call wrote to its ostream
    builtGrid,  \* the DisplayGrid the last call built
    calls,      \* the private renderer functions the last call ran, in order
    selection,  \* main: the response read by the last printMenu (-1: none yet)
    choice,     \* main: the UserChoice the last printMenu returned
    said,       \* main: what the last iteration's case printed
    running,    \* main: exit(0) has not been called
    traversal   \* generateDisplayGrid run one iteration at a time: its locals
                \* current, depth, traversal_stack (stack), rows, max_depth
                \* and done (the loop has reached a break); Idle outside it

treeVars == <<root, pre, op, arg, freed, inserted, removed, ret, out, builtGrid, calls>>

menuVars == <<selection, choice, said, running>>

gridVars == <<traversal>>

vars == <<root, pre, op, arg, freed, inserted, removed, ret, out, builtGrid, calls,
          selection, choice, said, running, traversal>>

Max(a, b) == IF a < b THEN b ELSE a

\* Node::Node(T value)
Node(value) ==
    [addr |-> NewAddr, key |-> value, height |-> 1, left |-> Null, right |-> Null]

\* static size_type height(Node *node)
height(node) == IF node = Null THEN 0 ELSE node.height

\* static Node* search(Node *root, const T& value)
RECURSIVE search(_, _)
search(r, value) ==
    IF r = Null THEN Null
    ELSE IF r.key = value THEN r
    ELSE IF r.key < value THEN search(r.right, value)
    ELSE search(r.left, value)

\* searchTree with the comparison root->key == value written as the
\* assignment root->key = value
searchTreeAssignsKey(r, value) ==
    IF r = Null THEN Null ELSE [r EXCEPT !.key = value]

\* search(Node*, const T&), the tree below root when the call returns: the
\* walk reads root->key, root->left and root->right and assigns to nothing.
RECURSIVE searchTree(_, _)
searchTree(r, value) ==
    IF r = Null THEN Null
    ELSE IF r.key = value THEN r
    ELSE IF r.key < value THEN [r EXCEPT !.right = searchTree(r.right, value)]
    ELSE [r EXCEPT !.left = searchTree(r.left, value)]

\* rightRotation with the reattachment of the displaced grandchild left out
rightRotationDropsGrandchild(r) ==
    IF r.left = Null THEN Fault
    ELSE LET new_root == r.left
             r1 == [r EXCEPT !.left = Null]
             r2 == [r1 EXCEPT !.height = 1 + Max(height(r1.left), height(r1.right))]
             n1 == [new_root EXCEPT !.right = r2]
         IN  [n1 EXCEPT !.height = 1 + Max(height(n1.left), height(n1.right))]

\* static Node* rightRotation(Node *root)
rightRotation(r) ==
    IF r.left = Null THEN Fault
    ELSE LET new_root == r.left
             r1 == [r EXCEPT !.left = new_root.right]
             r2 == [r1 EXCEPT !.height = 1 + Max(height(r1.left), height(r1.right))]
             n1 == [new_root EXCEPT !.right = r2]
         IN  [n1 EXCEPT !.height = 1 + Max(height(n1.left), height(n1.right))]

\* leftRotation with the two heights updated in the other order: the new
\* head first, from the old height of root
leftRotationNewHeadFirst(r) ==
    IF r.right = Null THEN Fault
    ELSE LET new_head == r.right
             r1 == [r EXCEPT !.right = new_head.left]
             n1 == [new_head EXCEPT !.left = r1]
             n2 == [n1 EXCEPT !.height = 1 + Max(height(n1.left), height(n1.right))]
             r2 == [r1 EXCEPT !.height = 1 + Max(height(r1.left), height(r1.right))]
         IN  [n2 EXCEPT !.left = r2]

\* static Node* leftRotation(Node *root)
leftRotation(r) ==
    IF r.right = Null THEN Fault
    ELSE LET new_head == r.right
             r1 == [r EXCEPT !.right = new_head.left]
             r2 == [r1 EXCEPT !.height = 1 + Max(height(r1.left), height(r1.right))]
             n1 == [new_head EXCEPT !.left = r2]
         IN  [n1 EXCEPT !.height = 1 + Max(height(n1.left), height(n1.right))]

\* insertBalance with the double rotations replaced by single ones
insertBalanceSingleOnly(r, value) ==
    LET r2 == [r EXCEPT !.height = 1 + Max(height(r.left), height(r.right))]
        balance == height(r2.left) - height(r2.right)
    IN  IF 1 < balance THEN rightRotation(r2)
        ELSE IF balance < -1 THEN leftRotation(r2)
        ELSE r2

\* insertBalance rotating only when the balance is beyond 2
insertBalanceLooseThreshold(r, value) ==
    LET r2 == [r EXCEPT !.height = 1 + Max(height(r.left), height(r.right))]
        balance == height(r2.left) - height(r2.right)
    IN  IF 2 < balance THEN
            IF value < r2.left.key THEN rightRotation(r2)
            ELSE LET l == leftRotation(r2.left)
                 IN  IF l = Fault THEN Fault
                     ELSE rightRotation([r2 EXCEPT !.left = l])
        ELSE IF balance < -2 THEN
            IF value > r2.right.key THEN leftRotation(r2)
            ELSE LET rt == rightRotation(r2.right)
                 IN  IF rt = Fault THEN Fault
                     ELSE leftRotation([r2 EXCEPT !.right = rt])
        ELSE r2

\* insertBalance without the inner rotation of the left-right case
insertBalanceNoInnerLeftRotation(r, value) ==
    LET r2 == [r EXCEPT !.height = 1 + Max(height(r.left), height(r.right))]
        balance == height(r2.left) - height(r2.right)
    IN  IF 1 < balance THEN rightRotation(r2)
        ELSE IF balance < -1 THEN
            IF value > r2.right.key THEN leftRotation(r2)
            ELSE LET rt == rightRotation(r2.right)
                 IN  IF rt = Fault THEN Fault
                     ELSE leftRotation([r2 EXCEPT !.right = rt])
        ELSE r2

\* insert(Node*, const T&), after the recursive call: update the height,
\* compute the balance and rotate.
insertBalance(r, value) ==
    LET r2 == [r EXCEPT !.height = 1 + Max(height(r.left), height(r.right))]
        balance == height(r2.left) - height(r2.right)
    IN  IF 1 < balance THEN
            IF value < r2.left.key THEN rightRotation(r2)
            ELSE LET l == leftRotation(r2.left)
                 IN  IF l = Fault THEN Fault
                     ELSE rightRotation([r2 EXCEPT !.left = l])
        ELSE IF balance < -1 THEN
            IF value > r2.right.key THEN leftRotation(r2)
            ELSE LET rt == rightRotation(r2.right)
                 IN  IF rt = Fault THEN Fault
                     ELSE leftRotation([r2 EXCEPT !.right = rt])
        ELSE r2

RECURSIVE insert(_, _)

\* insert(Node*, const T&), the comparison and the recursive call: root after
\* root->left or root->right has been assigned (untouched for a duplicate).
insertDescend(r, value) ==
    IF value < r.key THEN [r EXCEPT !.left = insert(r.left, value)]
    ELSE IF value > r.key THEN [r EXCEPT !.right = insert(r.right, value)]
    ELSE r

\* static Node* insert(Node *root, const T& value)
insert(r, value) ==
    IF r = Null THEN Node(value)
    ELSE LET r1 == insertDescend(r, value)
         IN  IF r1.left = Fault \/ r1.right = Fault THEN Fault
             ELSE insertBalance(r1, value)

\* walk without the loop: right stays at root->right
walkNoDescent(right) == right

\* The walk of the two-children case: the node `right` points to when the
\* while loop ends.
RECURSIVE walk(_)
walk(right) ==
    IF right.left # Null /\ right.left.left # Null THEN walk(right.left)
    ELSE right

\* The subtree below root->right after `right->left = nullptr` at the node
\* the walk ended on.
RECURSIVE walkDetach(_)
walkDetach(right) ==
    IF right.left # Null /\ right.left.left # Null
    THEN [right EXCEPT !.left = walkDetach(right.left)]
    ELSE [right EXCEPT !.left = Null]

\* removeFound copying the key of the walk's last node instead of the key of
\* that node's left child
removeFoundCopiesParentKey(r) ==
    IF r.right = Null THEN [node |-> r.left, freed |-> <<r.addr>>]
    ELSE IF r.left = Null THEN [node |-> r.right, freed |-> <<r.addr>>]
    ELSE LET right == walk(r.right)
         IN  IF right.left = Null
             THEN [node  |-> [r EXCEPT !.key = right.key, !.right = right.right],
                   freed |-> <<right.addr>>]
             ELSE [node  |-> [r EXCEPT !.key = right.key,
                                       !.right = walkDetach(r.right)],
                   freed |-> <<right.left.addr>>]

\* remove(Node*, const T&), the branch "We found the value": the node that
\* takes the place of root and the nodes deleted.
removeFound(r) ==
    IF r.right = Null THEN [node |-> r.left, freed |-> <<r.addr>>]
    ELSE IF r.left = Null THEN [node |-> r.right, freed |-> <<r.addr>>]
    ELSE LET right == walk(r.right)
         IN  IF right.left = Null
             THEN [node  |-> [r EXCEPT !.key = right.key, !.right = right.right],
                   freed |-> <<right.addr>>]
             ELSE [node  |-> [r EXCEPT !.key = right.left.key,
                                       !.right = walkDetach(r.right)],
                   freed |-> <<right.left.addr>>]

\* remove(Node*, const T&), after the removal: update the height, compute
\* the balance and rotate.
removeBalance(r) ==
    LET r2 == [r EXCEPT !.height = 1 + Max(height(r.left), height(r.right))]
        balance == height(r2.left) - height(r2.right)
    IN  IF balance > 1 THEN
            IF height(r2.left) >= height(r2.right) THEN rightRotation(r2)
            ELSE LET l == leftRotation(r2.left)
                 IN  IF l = Fault THEN Fault
                     ELSE rightRotation([r2 EXCEPT !.left = l])
        ELSE IF balance < -1 THEN
            IF height(r2.right) >= height(r2.left) THEN leftRotation(r2)
            ELSE LET rt == rightRotation(r2.right)
                 IN  IF rt = Fault THEN Fault
                     ELSE leftRotation([r2 EXCEPT !.right = rt])
        ELSE r2

RECURSIVE remove(_, _)

\* remove(Node*, const T&), the comparison with the recursive call or the
\* removal at root: the value of root before the height update, and the nodes
\* deleted.
removeDescend(r, value) ==
    IF value < r.key THEN
        LET c == remove(r.left, value)
        IN  [node  |-> IF c.node = Fault THEN Fault
                       ELSE [r EXCEPT !.left = c.node],
             freed |-> c.freed]
    ELSE IF value > r.key THEN
        LET c == remove(r.right, value)
        IN  [node  |-> IF c.node = Fault THEN Fault
                       ELSE [r EXCEPT !.right = c.node],
             freed |-> c.freed]
    ELSE removeFound(r)

\* static Node* remove(Node *root, const T& value): the returned pointer and
\* the nodes deleted.
remove(r, value) ==
    IF r = Null THEN [node |-> Null, freed |-> <<>>]
    ELSE LET s == removeDescend(r, value)
         IN  IF s.node = Null \/ s.node = Fault THEN s
             ELSE [node |-> removeBalance(s.node), freed |-> s.freed]

\* The tree with every node named by its position: 1 for the root, 2i and
\* 2i+1 for the children of node i.
RECURSIVE AddrOf(_, _)
AddrOf(t, i) ==
    IF t = Null THEN Null
    ELSE [t EXCEPT !.addr = i,
                   !.left = AddrOf(t.left, 2 * i),
                   !.right = AddrOf(t.right, 2 * i + 1)]

(***************************************************************************)
(* The renderer.  A string is a sequence of one-character strings.         *)
(***************************************************************************)

\* string(n, ' ')
Spaces(n) == [i \in 1..n |-> " "]

\* 1 << n
RECURSIVE Pow2(_)
Pow2(n) == IF n = 0 THEN 1 ELSE 2 * Pow2(n - 1)

\* reverse(result.begin(), result.end())
Reverse(seq) == [i \in 1..Len(seq) |-> seq[Len(seq) + 1 - i]]

\* ss << pn->key; ss.str(): the decimal digits of a key (keys are positive)
RECURSIVE Decimal(_)
Decimal(n) ==
    LET digit == <<"0", "1", "2", "3", "4", "5", "6", "7", "8", "9">>[(n % 10) + 1]
    IN  IF n < 10 THEN <<digit>> ELSE Decimal(n \div 10) \o <<digit>>

\* The grid of a walk that was ended by back() of an empty vector.
GridFault == <<<<Fault>>>>

\* cell_display() and cell_display(string value)
cell_display_absent == [value |-> <<>>, present |-> FALSE]

cell_display(value) == [value |-> value, present |-> TRUE]

\* rows[depth].push_back(current), rows being indexed from 0 in the code
PushRow(rows, depth, current) ==
    [rows EXCEPT ![depth + 1] = Append(@, current)]

\* gridStep without the exit at the root: the leave at depth 0 pops too
gridStepNoRootBreak(st, max_depth) ==
    IF st.depth = max_depth - 1 THEN
        LET pushed == [st EXCEPT !.rows = PushRow(st.rows, st.depth, st.current)]
        IN  IF st.depth = 0 THEN [pushed EXCEPT !.done = TRUE]
            ELSE [pushed EXCEPT !.depth = st.depth - 1]
    ELSE IF Len(st.stack) = st.depth THEN
        [st EXCEPT !.rows = PushRow(st.rows, st.depth, st.current),
                   !.stack = Append(st.stack, st.current),
                   !.current = IF st.current # Null THEN st.current.left
                               ELSE st.current,
                   !.depth = st.depth + 1]
    ELSE IF Len(st.rows[st.depth + 2]) % 2 = 1 THEN
        IF Len(st.stack) = 0 THEN [st EXCEPT !.current = Fault, !.done = TRUE]
        ELSE LET back == st.stack[Len(st.stack)]
             IN  [st EXCEPT !.current = IF back # Null THEN back.right ELSE back,
                            !.depth = st.depth + 1]
    ELSE LET popped == SubSeq(st.stack, 1, Len(st.stack) - 1)
         IN  IF Len(popped) = 0
             THEN [st EXCEPT !.stack = popped, !.current = Fault, !.done = TRUE]
             ELSE [st EXCEPT !.stack = popped,
                             !.current = popped[Len(popped)],
                             !.depth = st.depth - 1]

\* gridStep going to the right child on the first visit and to the left
\* child on the second
gridStepRightFirst(st, max_depth) ==
    IF st.depth = max_depth - 1 THEN
        LET pushed == [st EXCEPT !.rows = PushRow(st.rows, st.depth, st.current)]
        IN  IF st.depth = 0 THEN [pushed EXCEPT !.done = TRUE]
            ELSE [pushed EXCEPT !.depth = st.depth - 1]
    ELSE IF Len(st.stack) = st.depth THEN
        [st EXCEPT !.rows = PushRow(st.rows, st.depth, st.current),
                   !.stack = Append(st.stack, st.current),
                   !.current = IF st.current # Null THEN st.current.right
                               ELSE st.current,
                   !.depth = st.depth + 1]
    ELSE IF Len(st.rows[st.depth + 2]) % 2 = 1 THEN
        IF Len(st.stack) = 0 THEN [st EXCEPT !.current = Fault, !.done = TRUE]
        ELSE LET back == st.stack[Len(st.stack)]
             IN  [st EXCEPT !.current = IF back # Null THEN back.left ELSE back,
                            !.depth = st.depth + 1]
    ELSE IF st.depth = 0 THEN [st EXCEPT !.done = TRUE]
    ELSE LET popped == SubSeq(st.stack, 1, Len(st.stack) - 1)
         IN  IF Len(popped) = 0
             THEN [st EXCEPT !.stack = popped, !.current = Fault, !.done = TRUE]
             ELSE [st EXCEPT !.stack = popped,
                             !.current = popped[Len(popped)],
                             !.depth = st.depth - 1]

\* generateDisplayGrid, one iteration of while(true).  st holds the locals
\* current, depth, traversal_stack (stack) and rows; done is set by break.
\* back() of an empty vector ends the walk with current = Fault.
gridStep(st, max_depth) ==
    IF st.depth = max_depth - 1 THEN
        LET pushed == [st EXCEPT !.rows = PushRow(st.rows, st.depth, st.current)]
        IN  IF st.depth = 0 THEN [pushed EXCEPT !.done = TRUE]
            ELSE [pushed EXCEPT !.depth = st.depth - 1]
    ELSE IF Len(st.stack) = st.depth THEN
        [st EXCEPT !.rows = PushRow(st.rows, st.depth, st.current),
                   !.stack = Append(st.stack, st.current),
                   !.current = IF st.current # Null THEN st.current.left
                               ELSE st.current,
                   !.depth = st.depth + 1]
    ELSE IF Len(st.rows[st.depth + 2]) % 2 = 1 THEN
        IF Len(st.stack) = 0 THEN [st EXCEPT !.current = Fault, !.done = TRUE]
        ELSE LET back == st.stack[Len(st.stack)]
             IN  [st EXCEPT !.current = IF back # Null THEN back.right ELSE back,
                            !.depth = st.depth + 1]
    ELSE IF st.depth = 0 THEN [st EXCEPT !.done = TRUE]
    ELSE LET popped == SubSeq(st.stack, 1, Len(st.stack) - 1)
         IN  IF Len(popped) = 0
             THEN [st EXCEPT !.stack = popped, !.current = Fault, !.done = TRUE]
             ELSE [st EXCEPT !.stack = popped,
                             !.current = popped[Len(popped)],
                             !.depth = st.depth - 1]

\* generateDisplayGrid, the while(true) loop run to its break
RECURSIVE gridLoop(_, _)
gridLoop(st, max_depth) ==
    IF st.done THEN st ELSE gridLoop(gridStep(st, max_depth), max_depth)

\* DisplayGrid generateDisplayGrid() const
generateDisplayGrid(t) ==
    IF t = Null THEN <<>>
    ELSE LET max_depth == t.height
             st == gridLoop([current |-> t, depth |-> 0, stack |-> <<>>,
                             rows |-> [d \in 1..max_depth |-> <<>>],
                             done |-> FALSE], max_depth)
         IN  IF st.current = Fault THEN GridFault
             ELSE [d \in 1..max_depth |->
                      [c \in 1..Len(st.rows[d]) |->
                          LET pn == st.rows[d][c]
                          IN  IF pn # Null THEN cell_display(Decimal(pn.key))
                              ELSE cell_display_absent]]

\* formatGrid, the width of a cell: the longest value, at least 3, made odd
cellWidth(grid) ==
    LET lengths == UNION {{Len(grid[d][c].value) :
                               c \in {k \in 1..Len(grid[d]) : grid[d][k].present}} :
                          d \in 1..Len(grid)}
        longest == IF \E n \in lengths : n > 3
                   THEN CHOOSE n \in lengths : \A k \in lengths : k <= n
                   ELSE 3
    IN  IF longest % 2 = 0 THEN longest + 1 ELSE longest

\* formatGrid, the row of values of one grid row: cells 0..c of gridRow
RECURSIVE valueRow(_, _, _, _)
valueRow(gridRow, c, left_pad, cell_width) ==
    LET before == IF c = 0 THEN <<>>
                  ELSE valueRow(gridRow, c - 1, left_pad, cell_width)
        pad == Spaces(IF c # 0 THEN 2 * left_pad + 1 ELSE left_pad)
        cell == gridRow[c + 1]
        nodeValue == cell.value
        diff == cell_width - Len(nodeValue)
        short_padding == diff \div 2
        long_padding == diff - short_padding
    IN  before \o pad \o
        (IF cell.present
         THEN Spaces(IF c % 2 = 1 THEN short_padding ELSE long_padding)
              \o nodeValue
              \o Spaces(IF c % 2 = 1 THEN long_padding ELSE short_padding)
         ELSE Spaces(cell_width))

\* formatGrid, one row of slashes: cells 0..c of gridRow
RECURSIVE slashRow(_, _, _, _)
slashRow(gridRow, c, left_space, right_space) ==
    LET before == IF c = 0 THEN <<>>
                  ELSE slashRow(gridRow, c - 1, left_space, right_space)
    IN  before \o
        (IF c % 2 = 0
         THEN Spaces(IF c # 0 THEN 2 * left_space + 1 ELSE left_space)
              \o <<IF gridRow[c + 1].present THEN "/" ELSE " ">>
              \o Spaces(right_space + 1)
         ELSE Spaces(right_space)
              \o <<IF gridRow[c + 1].present THEN "\\" ELSE " ">>)

\* formatGrid, the rows of slashes i..space-1 above one grid row
RECURSIVE slashRows(_, _, _, _, _)
slashRows(gridRow, row_elem_count, i, space, left_space) ==
    IF i >= space THEN <<>>
    ELSE <<slashRow(gridRow, row_elem_count - 1, left_space + i, space - 1 - i)>>
         \o slashRows(gridRow, row_elem_count, i + 1, space, left_space)

\* formatGrid, the main loop from iteration r on, in the order of push_back
RECURSIVE formatRows(_, _, _, _, _)
formatRows(grid, r, row_elem_count, left_pad, cell_width) ==
    LET row_count == Len(grid)
    IN  IF r >= row_count THEN <<>>
        ELSE LET gridRow == grid[row_count - r]
                 space == (Pow2(r) * (cell_width + 1)) \div 2 - 1
                 row == valueRow(gridRow, row_elem_count - 1, left_pad, cell_width)
             IN  IF row_elem_count = 1 THEN <<row>>
                 ELSE <<row>>
                      \o slashRows(gridRow, row_elem_count, 0, space, space + 1)
                      \o formatRows(grid, r + 1, row_elem_count \div 2,
                                    left_pad + space + 1, cell_width)

\* vector<string> formatGrid(const DisplayGrid& grid) const
formatGrid(grid) ==
    Reverse(formatRows(grid, 0, Pow2(Len(grid) - 1), 0, cellWidth(grid)))

\* row.find_first_not_of(' '), row.length() when there is none
RECURSIVE firstNotSpace(_, _)
firstNotSpace(row, i) ==
    IF i >= Len(row) THEN Len(row)
    ELSE IF row[i + 1] # " " THEN i
    ELSE firstNotSpace(row, i + 1)

\* static void trimRowsLeft(vector<string>& rows)
trimRowsLeft(rows) ==
    IF Len(rows) = 0 THEN rows
    ELSE LET firsts == [k \in 1..Len(rows) |-> firstNotSpace(rows[k], 0)]
             candidates == {Len(rows[1])} \cup {firsts[k] : k \in 1..Len(rows)}
             min_space == CHOOSE n \in candidates : \A k \in candidates : n <= k
         IN  IF \E k \in 1..Len(rows) : firsts[k] = 0 THEN rows
             ELSE [k \in 1..Len(rows) |->
                      SubSeq(rows[k], min_space + 1, Len(rows[k]))]

\* "<empty tree>"
EmptyTree == <<"<", "e", "m", "p", "t", "y", " ", "t", "r", "e", "e", ">">>

\* display printing the indicator of an empty tree without returning
displayFallsThrough(t) ==
    IF height(t) = 0
    THEN [out |-> <<EmptyTree>>, grid |-> generateDisplayGrid(t),
          calls |-> <<"generateDisplayGrid", "formatGrid", "trimRowsLeft">>]
    ELSE LET grid == generateDisplayGrid(t)
             formattedGrid == trimRowsLeft(formatGrid(grid))
         IN  [out |-> [k \in 1..Len(formattedGrid) |-> <<" ">> \o formattedGrid[k]],
              grid |-> grid,
              calls |-> <<"generateDisplayGrid", "formatGrid", "trimRowsLeft">>]

\* ostream& display(ostream& out): the lines written to out, the grid built
\* and the functions called.
display(t) ==
    IF height(t) = 0
    THEN [out |-> <<EmptyTree>>, grid |-> <<>>, calls |-> <<>>]
    ELSE LET grid == generateDisplayGrid(t)
             formattedGrid == trimRowsLeft(formatGrid(grid))
         IN  IF grid = GridFault THEN [out |-> <<>>, grid |-> grid,
                                       calls |-> <<"generateDisplayGrid">>]
             ELSE [out |-> [k \in 1..Len(formattedGrid) |->
                               <<" ">> \o formattedGrid[k]],
                   grid |-> grid,
                   calls |-> <<"generateDisplayGrid", "formatGrid", "trimRowsLeft">>]

(***************************************************************************)
(* The menu of src/main.cpp.                                               *)
(***************************************************************************)

\* enum class UserChoice (Show is the enumerator for choice 3, "print the
\* tree")
UserChoice == [Invalid |-> 0, Insert |-> 1, Delete |-> 2, Show |-> 3, Exit |-> 4]

\* options.size()
NumOptions == 4

\* unsigned short response: values are kept modulo 2^16
UShortMod == 65536

\* Largest of the small responses typed (the largest response is typed too).
MaxTyped == 6

Responses == (0..MaxTyped) \cup {UShortMod - 1}

\* printMenu storing 1 instead of -1 for a response out of range
printMenuStoresOne(response) ==
    IF ~(1 <= response /\ response <= NumOptions) THEN 1 % UShortMod
    ELSE response

\* UserChoice printMenu(): the value returned when `response` is read
printMenu(response) ==
    IF ~(1 <= response /\ response <= NumOptions) THEN (-1) % UShortMod
    ELSE response

\* What a call returns when it returns nothing.
Void == [void |-> TRUE]

\* No call of generateDisplayGrid is in progress
Idle == [idle |-> TRUE]

Init ==
    /\ root = Null
    /\ pre = Null
    /\ op = "none"
    /\ arg = 0
    /\ freed = <<>>
    /\ inserted = {}
    /\ removed = FALSE
    /\ ret = Void
    /\ out = <<>>
    /\ builtGrid = <<>>
    /\ calls = <<>>
    /\ selection = -1
    /\ choice = UserChoice.Invalid
    /\ said = <<>>
    /\ running = TRUE
    /\ traversal = Idle

\* t.insert(value)
InsertCall(value) ==
    /\ pre' = AddrOf(root, 1)
    /\ root' = insert(pre', value)
    /\ op' = "insert"
    /\ arg' = value
    /\ freed' = <<>>
    /\ inserted' = inserted \cup {value}
    /\ ret' = Void
    /\ out' = <<>>
    /\ builtGrid' = <<>>
    /\ calls' = <<>>
    /\ UNCHANGED removed

\* t.remove(value)
RemoveCall(value) ==
    /\ pre' = AddrOf(root, 1)
    /\ LET res == remove(pre', value)
       IN  /\ root' = res.node
           /\ freed' = res.freed
    /\ op' = "remove"
    /\ arg' = value
    /\ removed' = TRUE
    /\ ret' = Void
    /\ out' = <<>>
    /\ builtGrid' = <<>>
    /\ calls' = <<>>
    /\ UNCHANGED inserted

\* t.search(value)
SearchCall(value) ==
    /\ pre' = AddrOf(root, 1)
    /\ root' = searchTree(pre', value)
    /\ ret' = search(pre', value)
    /\ op' = "search"
    /\ arg' = value
    /\ freed' = <<>>
    /\ out' = <<>>
    /\ builtGrid' = <<>>
    /\ calls' = <<>>
    /\ UNCHANGED <<inserted, removed>>

\* t.height()
HeightCall ==
    /\ pre' = AddrOf(root, 1)
    /\ root' = pre'
    /\ ret' = [height |-> height(pre')]
    /\ op' = "height"
    /\ arg' = 0
    /\ freed' = <<>>
    /\ out' = <<>>
    /\ builtGrid' = <<>>
    /\ calls' = <<>>
    /\ UNCHANGED <<inserted, removed>>

\* out << t, that is t.display(out)
DisplayCall ==
    /\ pre' = AddrOf(root, 1)
    /\ root' = pre'
    /\ LET d == display(pre')
       IN  /\ out' = d.out
           /\ builtGrid' = d.grid
           /\ calls' = d.calls
    /\ ret' = Void
    /\ op' = "display"
    /\ arg' = 0
    /\ freed' = <<>>
    /\ UNCHANGED <<inserted, removed>>

\* An iteration of main's loop that calls nothing on t.
NoCall ==
    /\ pre' = AddrOf(root, 1)
    /\ root' = pre'
    /\ ret' = Void
    /\ op' = "none"
    /\ arg' = 0
    /\ freed' = <<>>
    /\ out' = <<>>
    /\ builtGrid' = <<>>
    /\ calls' = <<>>
    /\ UNCHANGED <<inserted, removed>>

\* void insert(const T& value)
Insert ==
    \E value \in Keys :
        /\ root # Fault
        /\ InsertCall(value)
        /\ UNCHANGED menuVars
        /\ UNCHANGED gridVars

\* void remove(const T& value)
Remove ==
    \E value \in Keys :
        /\ root # Fault
        /\ RemoveCall(value)
        /\ UNCHANGED menuVars
        /\ UNCHANGED gridVars

\* Node* search(const T& value)
Search ==
    \E value \in Keys :
        /\ root # Fault
        /\ SearchCall(value)
        /\ UNCHANGED menuVars
        /\ UNCHANGED gridVars

\* size_type height()
GetHeight ==
    /\ root # Fault
    /\ HeightCall
    /\ UNCHANGED menuVars
    /\ UNCHANGED gridVars

\* operator<<(ostream&, AVL<T>&)
Display ==
    /\ root # Fault
    /\ DisplayCall
    /\ UNCHANGED menuVars
    /\ UNCHANGED gridVars

Next == Insert \/ Remove \/ Search \/ GetHeight \/ Display

Spec == Init /\ [][Next]_vars

\* main, one iteration of while (true): printMenu reads response, the switch
\* runs the case of the returned choice (none when no case matches), and the
\* cases Insert and Delete read value.
MenuLoop ==
    \E response \in Responses :
        LET c == printMenu(response)
        IN  /\ running
            /\ root # Fault
            /\ selection' = response
            /\ choice' = c
            /\ said' = IF c = UserChoice.Invalid
                           THEN <<"Invalid choice, try again!">>
                       ELSE IF c = UserChoice.Insert
                           THEN <<"Enter an integer to insert: ">>
                       ELSE IF c = UserChoice.Delete
                           THEN <<"Enter an integer to delete: ">>
                       ELSE <<>>
            /\ IF c = UserChoice.Insert THEN \E value \in Keys : InsertCall(value)
               ELSE IF c = UserChoice.Delete THEN \E value \in Keys : RemoveCall(value)
               ELSE IF c = UserChoice.Show THEN DisplayCall
               ELSE NoCall
            /\ running' = (c # UserChoice.Exit)
            /\ UNCHANGED gridVars

SpecMenu == Init /\ [][MenuLoop]_vars

\* The keys used while generateDisplayGrid is followed iteration by iteration
MaxGridKey == 5

GridKeys == 1..MaxGridKey

\* generateDisplayGrid is inside its while(true) loop
Walking == traversal # Idle /\ ~traversal.done

\* The coming iteration of the loop is the leave below the root: none of the
\* three ifs before it holds and depth is not 0, so it runs
\* traversal_stack.pop_back() and then reads traversal_stack.back().
Leaving ==
    /\ Walking
    /\ traversal.depth # traversal.max_depth - 1
    /\ Len(traversal.stack) # traversal.depth
    /\ Len(traversal.rows[traversal.depth + 2]) % 2 = 0
    /\ traversal.depth # 0

\* The loop has ended by a break
Finished == traversal # Idle /\ traversal.done /\ traversal.current # Fault

\* t.insert(value) while no display is running
GridInsert ==
    \E value \in GridKeys :
        /\ root # Fault
        /\ traversal = Idle
        /\ InsertCall(value)
        /\ UNCHANGED menuVars
        /\ UNCHANGED gridVars

\* t.remove(value) while no display is running
GridRemove ==
    \E value \in GridKeys :
        /\ root # Fault
        /\ traversal = Idle
        /\ RemoveCall(value)
        /\ UNCHANGED menuVars
        /\ UNCHANGED gridVars

\* generateDisplayGrid on a non-empty tree, up to the loop: the locals as
\* they are initialised.  pops counts the leaves below the root done so far.
GridStart ==
    /\ root # Fault
    /\ root # Null
    /\ traversal = Idle
    /\ traversal' = [current |-> root, depth |-> 0, stack |-> <<>>,
                     rows |-> [d \in 1..root.height |-> <<>>],
                     done |-> FALSE, max_depth |-> root.height, pops |-> 0]
    /\ UNCHANGED treeVars
    /\ UNCHANGED menuVars

\* generateDisplayGrid, one iteration of while(true)
GridStep ==
    /\ Walking
    /\ traversal' = [gridStep(traversal, traversal.max_depth) EXCEPT
                         !.pops = IF Leaving THEN @ + 1 ELSE @]
    /\ UNCHANGED treeVars
    /\ UNCHANGED menuVars

\* generateDisplayGrid after the loop: the rows of Node pointers become rows
\* of cell_display, the function returns them and its locals go
GridReturn ==
    /\ Finished
    /\ traversal' = Idle
    /\ builtGrid' = [d \in 1..traversal.max_depth |->
                        [c \in 1..Len(traversal.rows[d]) |->
                            LET pn == traversal.rows[d][c]
                            IN  IF pn # Null THEN cell_display(Decimal(pn.key))
                                ELSE cell_display_absent]]
    /\ UNCHANGED <<root, pre, op, arg, freed, inserted, removed, ret, out, calls>>
    /\ UNCHANGED menuVars

NextGrid == GridInsert \/ GridRemove \/ GridStart \/ GridStep \/ GridReturn

\* The loop is sequential code: once entered, its next iteration runs.
SpecGrid == Init /\ [][NextGrid]_vars /\ WF_vars(GridStep)

(***************************************************************************)
(* Observations of a tree.                                                 *)
(***************************************************************************)
Abs(x) == IF x < 0 THEN -x ELSE x

\* The nodes of a tree (each with its subtree).
RECURSIVE Nodes(_)
Nodes(t) ==
    IF t = Null THEN {}
    ELSE {t} \cup Nodes(t.left) \cup Nodes(t.right)

\* The number of nodes of a tree.
RECURSIVE Size(_)
Size(t) == IF t = Null THEN 0 ELSE 1 + Size(t.left) + Size(t.right)

\* The number of nodes on the longest path from t down to a leaf.
RECURSIVE Depth(_)
Depth(t) == IF t = Null THEN 0 ELSE 1 + Max(Depth(t.left), Depth(t.right))

\* The keys of a tree from left to right.
RECURSIVE InOrder(_)
InOrder(t) ==
    IF t = Null THEN <<>>
    ELSE InOrder(t.left) \o <<t.key>> \o InOrder(t.right)

KeysOf(t) == {n.key : n \in Nodes(t)}

AddrsOf(t) == {n.addr : n \in Nodes(t)}

\* The nodes on which the recursion of insert or remove for value is entered,
\* from t down (each as it is on entry to the call).
RECURSIVE Path(_, _)
Path(t, value) ==
    IF t = Null THEN {}
    ELSE {t} \cup (IF value < t.key THEN Path(t.left, value)
                   ELSE IF value > t.key THEN Path(t.right, value)
                   ELSE {})

\* The three invariants of the data model, of a tree t.
BSTOrdered(t) ==
    /\ \A n \in Nodes(t) :
           /\ \A k \in KeysOf(n.left) : k < n.key
           /\ \A k \in KeysOf(n.right) : k > n.key
    /\ Cardinality(KeysOf(t)) = Size(t)

HeightsCorrect(t) ==
    \A n \in Nodes(t) : n.height = 1 + Max(height(n.left), height(n.right))

BalancedAVL(t) ==
    \A n \in Nodes(t) :
        /\ Abs(height(n.left) - height(n.right)) <= 1
        /\ Abs(Depth(n.left) - Depth(n.right)) <= 1

\* The call returned (it was not ended by a fault).
Returned == root # Fault

(***************************************************************************)
(* C1: after every insert and every remove, every node's left and right    *)
(* subtrees differ in actual height by at most 1.                          *)
(***************************************************************************)
C1_Balance ==
    Returned =>
        \A n \in Nodes(root) : Abs(Depth(n.left) - Depth(n.right)) <= 1

(***************************************************************************)
(* C2: remove(v) of a key v of the tree makes search(v) absent and keeps   *)
(* every other key findable.                                               *)
(***************************************************************************)
C2_RemoveExactlyV ==
    (op = "remove" /\ Returned /\ search(pre, arg) # Null) =>
        /\ search(root, arg) = Null
        /\ \A k \in Keys \ {arg} :
               search(pre, k) # Null => search(root, k) # Null

(***************************************************************************)
(* C3: after every call, every node's cached height is 1 + the larger of   *)
(* its children's heights (0 for an absent child).                         *)
(***************************************************************************)
C3_HeightFormula ==
    Returned =>
        \A n \in Nodes(root) :
            n.height = 1 + Max(height(n.left), height(n.right))

(***************************************************************************)
(* C4: after any sequence of calls, at every node the keys of the left     *)
(* subtree are smaller and the keys of the right subtree larger than the   *)
(* node's key, and no key occurs in two nodes.                             *)
(***************************************************************************)
C4_BST ==
    Returned =>
        /\ \A n \in Nodes(root) :
               /\ \A k \in KeysOf(n.left) : k < n.key
               /\ \A k \in KeysOf(n.right) : k > n.key
        /\ Cardinality(KeysOf(root)) = Size(root)

\* A remove that found its key in a node with two children whose right
\* child has a left child (the successor's key is copied from below).
C4_Witness ==
    /\ op = "remove"
    /\ Returned
    /\ LET n == search(pre, arg)
       IN  /\ n # Null
           /\ n.left # Null
           /\ n.right # Null
           /\ n.right.left # Null
    /\ Size(root) >= 4

(***************************************************************************)
(* C5: insert(v) of a key v already in the tree leaves the tree as it was: *)
(* same shape, same keys in order, same height at every node.              *)
(***************************************************************************)
C5_InsertPresentNoOp ==
    (op = "insert" /\ search(pre, arg) # Null) => root = pre

(***************************************************************************)
(* C6: remove(v) of a key v that is not in the tree (the empty tree        *)
(* included) leaves the tree as it was: same shape, same keys in order,    *)
(* same height at every node.                                              *)
(***************************************************************************)
C6_RemoveAbsentNoOp ==
    (op = "remove" /\ search(pre, arg) = Null) => root = pre

(***************************************************************************)
(* C7: as long as only insert has been called, search(k) returns a node    *)
(* holding k for every key k that was inserted and absent for every key    *)
(* that was never inserted.                                                *)
(***************************************************************************)
C7_MembershipRoundTrip ==
    (~removed /\ Returned) =>
        \A k \in Keys :
            IF k \in inserted
            THEN search(root, k) # Null /\ search(root, k).key = k
            ELSE search(root, k) = Null

\* Five keys inserted, one never inserted, and the last insert rotated below
\* the root: a child of the root holds another key than before.
C7_Witness ==
    /\ ~removed
    /\ Returned
    /\ op = "insert"
    /\ Cardinality(inserted) = 5
    /\ Size(root) = 5
    /\ pre # Null
    /\ pre.left # Null
    /\ pre.right # Null
    /\ root.key = pre.key
    /\ (root.left.key # pre.left.key \/ root.right.key # pre.right.key)

(***************************************************************************)
(* C8: height() is the number of nodes on the longest path from the root   *)
(* to a leaf of the tree as it is, and 0 for the empty tree.               *)
(***************************************************************************)
C8_HeightIsDepth ==
    Returned => height(root) = Depth(root)

(***************************************************************************)
(* C9: once exactly three distinct keys have been inserted into the empty  *)
(* tree, in whatever order, the median is at the root, the smallest key is *)
(* its left child and the largest its right child, both leaves.            *)
(***************************************************************************)
C9_ThreeKeysMedianAtRoot ==
    (~removed /\ Returned /\ Cardinality(inserted) = 3) =>
        LET lo  == CHOOSE k \in inserted : \A j \in inserted : k <= j
            hi  == CHOOSE k \in inserted : \A j \in inserted : j <= k
            mid == CHOOSE k \in inserted : k # lo /\ k # hi
        IN  /\ root # Null
            /\ root.key = mid
            /\ root.left # Null
            /\ root.left.key = lo
            /\ root.left.left = Null /\ root.left.right = Null
            /\ root.right # Null
            /\ root.right.key = hi
            /\ root.right.left = Null /\ root.right.right = Null

\* The order largest, smallest, median (30, 10, 20): the third insert finds
\* the largest key at the root with the smallest as its left child.
C9_Witness ==
    /\ ~removed
    /\ Returned
    /\ op = "insert"
    /\ Cardinality(inserted) = 3
    /\ pre # Null
    /\ pre.left # Null
    /\ pre.right = Null
    /\ pre.left.key < arg
    /\ arg < pre.key

(***************************************************************************)
(* C10: every node a remove call detaches from the tree is passed to       *)
(* delete exactly once during the call, and no deleted node is reachable   *)
(* from the root afterwards.                                               *)
(***************************************************************************)
C10_DetachedDestroyedOnce ==
    (op = "remove" /\ Returned) =>
        /\ \A a \in AddrsOf(pre) \ AddrsOf(root) :
               Cardinality({i \in 1..Len(freed) : freed[i] = a}) = 1
        /\ \A i \in 1..Len(freed) : freed[i] \notin AddrsOf(root)

(***************************************************************************)
(* C15: at every node on the unwind of remove, the rotation done is the    *)
(* one chosen by the grandchildren's heights: for balance > 1 a single     *)
(* right rotation if height(left.left) >= height(left.right), else a left  *)
(* rotation of the left child followed by a right rotation; mirrored for   *)
(* balance < -1.                                                           *)
(***************************************************************************)
C15_RemoveRotationByGrandchildren ==
    op = "remove" =>
        \A n \in Path(pre, arg) :
            LET s == removeDescend(n, arg).node
                r2 == [s EXCEPT !.height = 1 + Max(height(s.left), height(s.right))]
                balance == height(r2.left) - height(r2.right)
                chosen ==
                    IF balance > 1 THEN
                        IF height(r2.left.left) >= height(r2.left.right)
                        THEN rightRotation(r2)
                        ELSE rightRotation([r2 EXCEPT !.left = leftRotation(r2.left)])
                    ELSE IF balance < -1 THEN
                        IF height(r2.right.right) >= height(r2.right.left)
                        THEN leftRotation(r2)
                        ELSE leftRotation([r2 EXCEPT !.right = rightRotation(r2.right)])
                    ELSE r2
            IN  (s # Null /\ s # Fault) => removeBalance(s) = chosen

(***************************************************************************)
(* C16: as long as only insert has been called (duplicates included),      *)
(* every node satisfies BST ordering, the height formula and the balance   *)
(* bound after every insert.                                               *)
(***************************************************************************)
C16_InsertOnlyInvariants ==
    (~removed /\ Returned) =>
        /\ BSTOrdered(root)
        /\ HeightsCorrect(root)
        /\ BalancedAVL(root)

\* An insert of a key already present into a tree of five or more nodes
\* built by inserts only.
C16_Witness ==
    /\ ~removed
    /\ Returned
    /\ op = "insert"
    /\ search(pre, arg) # Null
    /\ Size(root) >= 5
    /\ Depth(root) = 3

(***************************************************************************)
(* C17: in a two-children removal the walk ends on the parent of the       *)
(* smallest node of the right subtree (or on the right child itself when   *)
(* it has no left child); the key written into the matched node is the     *)
(* smallest key of its right subtree and the node deleted is the one that  *)
(* held that key.                                                          *)
(***************************************************************************)
C17_SuccessorSplice ==
    (op = "remove" /\ Returned) =>
        LET n == search(pre, arg)
        IN  (n # Null /\ n.left # Null /\ n.right # Null) =>
                LET m == CHOOSE k \in KeysOf(n.right) :
                             \A j \in KeysOf(n.right) : k <= j
                    w == walk(n.right)
                IN  /\ IF n.right.left = Null
                       THEN w = n.right /\ w.key = m
                       ELSE w.left # Null /\ w.left.key = m
                    /\ \E x \in Nodes(root) : x.addr = n.addr /\ x.key = m
                    /\ freed = <<search(pre, m).addr>>

\* A two-children removal whose walk went down at least one level.
C17_Witness ==
    /\ op = "remove"
    /\ Returned
    /\ LET n == search(pre, arg)
       IN  /\ n # Null
           /\ n.left # Null
           /\ n.right # Null
           /\ n.right.left # Null
           /\ n.right.left.left # Null

(***************************************************************************)
(* C18: an insert into a tree that satisfies the three invariants finds    *)
(* |balance| > 1 at no more than one node of its unwind.                   *)
(***************************************************************************)
Unbalanced(pretree, value) ==
    {n \in Path(pretree, value) :
        LET r1 == insertDescend(n, value)
        IN  /\ r1.left # Fault
            /\ r1.right # Fault
            /\ Abs(height(r1.left) - height(r1.right)) > 1}

C18_AtMostOneRebalance ==
    (op = "insert" /\ BSTOrdered(pre) /\ HeightsCorrect(pre) /\ BalancedAVL(pre)) =>
        Cardinality(Unbalanced(pre, arg)) <= 1

\* An insert that rotated below the root of a tree satisfying the three
\* invariants.
C18_Witness ==
    /\ op = "insert"
    /\ Returned
    /\ BSTOrdered(pre) /\ HeightsCorrect(pre) /\ BalancedAVL(pre)
    /\ Cardinality(Unbalanced(pre, arg)) = 1
    /\ pre \notin Unbalanced(pre, arg)

(***************************************************************************)
(* C19: a rotation of a subtree whose pivot child exists keeps the keys in *)
(* order and the set of nodes, makes the former child the root of the      *)
(* subtree, and leaves both nodes it touched with height = 1 + max of the  *)
(* children's heights (the real heights when the cached heights of the     *)
(* three untouched subtrees were correct).                                 *)
(***************************************************************************)
RotationKeeps(n, t, a, b, c) ==
    /\ t # Fault
    /\ InOrder(t) = InOrder(n)
    /\ AddrsOf(t) = AddrsOf(n)
    /\ Size(t) = Size(n)
    /\ t.height = 1 + Max(height(t.left), height(t.right))
    /\ (height(a) = Depth(a) /\ height(b) = Depth(b) /\ height(c) = Depth(c))
           => t.height = Depth(t)

C19_RotationPreserves ==
    Returned =>
        \A n \in Nodes(root) :
            /\ n.left # Null =>
                   LET t == rightRotation(n)
                   IN  /\ RotationKeeps(n, t, n.left.left, n.left.right, n.right)
                       /\ t.addr = n.left.addr
                       /\ t.right.addr = n.addr
                       /\ t.right.height
                              = 1 + Max(height(t.right.left), height(t.right.right))
                       /\ t.left = n.left.left
                       /\ t.right.left = n.left.right
                       /\ t.right.right = n.right
            /\ n.right # Null =>
                   LET t == leftRotation(n)
                   IN  /\ RotationKeeps(n, t, n.left, n.right.left, n.right.right)
                       /\ t.addr = n.right.addr
                       /\ t.left.addr = n.addr
                       /\ t.left.height
                              = 1 + Max(height(t.left.left), height(t.left.right))
                       /\ t.right = n.right.right
                       /\ t.left.right = n.right.left
                       /\ t.left.left = n.left

\* A call that rotated at the root, leaving a tree with a node whose two
\* children and two left grandchildren all exist.
C19_Witness ==
    /\ Returned
    /\ op \in {"insert", "remove"}
    /\ pre # Null
    /\ root # Null
    /\ root.key # pre.key
    /\ \E n \in Nodes(root) :
           /\ n.left # Null
           /\ n.right # Null
           /\ n.left.left # Null
           /\ n.left.right # Null

(***************************************************************************)
(* C11: an iteration of the menu loop whose selection is outside 1..4      *)
(* (any value of the 16-bit response) tells the user that the choice is    *)
(* invalid.                                                                *)
(***************************************************************************)
C11_OutOfRangeReported ==
    (selection \in 0..(UShortMod - 1) /\ selection \notin 1..NumOptions) =>
        said = <<"Invalid choice, try again!">>

(***************************************************************************)
(* C12: in the menu loop insert, remove and display are called only in an  *)
(* iteration whose selection was 1, 2 and 3 respectively, and an iteration *)
(* with a selection outside 1..4 calls nothing and leaves the tree as it   *)
(* was.                                                                    *)
(***************************************************************************)
C12_OutOfRangeNeverReachesCore ==
    /\ op = "insert" => selection = 1
    /\ op = "remove" => selection = 2
    /\ op = "display" => selection = 3
    /\ (selection \in 0..(UShortMod - 1) /\ selection \notin 1..NumOptions) =>
           /\ op = "none"
           /\ root = pre
           /\ freed = <<>>
           /\ out = <<>>

\* An iteration with the largest 16-bit selection on a tree of three or more
\* nodes.
C12_Witness ==
    /\ selection = UShortMod - 1
    /\ op = "none"
    /\ root # Fault
    /\ Size(root) >= 3

(***************************************************************************)
(* C13: display on an empty tree, fresh or emptied by removes, writes the  *)
(* empty-tree indicator and nothing else, and runs neither the grid        *)
(* construction nor the formatting.                                        *)
(***************************************************************************)
C13_EmptyDisplay ==
    (op = "display" /\ pre = Null) =>
        /\ out = <<EmptyTree>>
        /\ calls = <<>>
        /\ builtGrid = <<>>

\* display on a tree that removes have emptied again.
C13_Witness ==
    /\ op = "display"
    /\ pre = Null
    /\ removed
    /\ inserted # {}

(***************************************************************************)
(* C14: search, height and display leave the tree as it was: the same      *)
(* root, and at every node the same key, cached height and children.       *)
(***************************************************************************)
C14_ReadOnly ==
    op \in {"search", "height", "display"} => root = pre

\* A search that found its key below the root of a tree of four or more
\* nodes.
C14_Witness ==
    /\ op = "search"
    /\ ret # Null
    /\ root # Null
    /\ ret.key = arg
    /\ root.key # arg
    /\ Size(root) >= 4

(***************************************************************************)
(* C20: the grid display builds for a non-empty tree has height(root)      *)
(* rows, row d has 2^d cells, and the cell at slot i of row d is present   *)
(* with the node's key exactly when the tree has a node at that position;  *)
(* every node of the tree is in the grid.                                  *)
(***************************************************************************)
\* The node at slot i (from 0, left to right) of row d of the tree t.
RECURSIVE NodeAt(_, _, _)
NodeAt(t, d, i) ==
    IF d = 0 \/ t = Null THEN t
    ELSE IF i < Pow2(d - 1) THEN NodeAt(t.left, d - 1, i)
    ELSE NodeAt(t.right, d - 1, i - Pow2(d - 1))

C20_GridMatchesTree ==
    (op = "display" /\ pre # Null) =>
        /\ Len(builtGrid) = height(pre)
        /\ \A d \in 0..(Len(builtGrid) - 1) :
               /\ Len(builtGrid[d + 1]) = Pow2(d)
               /\ \A i \in 0..(Pow2(d) - 1) :
                      LET n == NodeAt(pre, d, i)
                          cell == builtGrid[d + 1][i + 1]
                      IN  IF n # Null
                          THEN cell.present /\ cell.value = Decimal(n.key)
                          ELSE ~cell.present
        /\ Size(pre) = Cardinality({<<d, i>> \in (1..Len(builtGrid)) \X (1..Pow2(Len(builtGrid))) :
                                        i <= Len(builtGrid[d]) /\ builtGrid[d][i].present})

\* display of a tree that has a leaf above its last row: a slot below a real
\* leaf, next to a slot with a node.
C20_Witness ==
    /\ op = "display"
    /\ pre # Null
    /\ Size(pre) >= 4
    /\ \E d \in 1..(Len(builtGrid) - 1) :
           \E i \in 1..Len(builtGrid[d]) :
               /\ builtGrid[d][i].present
               /\ ~builtGrid[d + 1][2 * i - 1].present
               /\ ~builtGrid[d + 1][2 * i].present
    /\ \E i \in 1..Len(builtGrid[Len(builtGrid)]) :
           builtGrid[Len(builtGrid)][i].present

\* ---------------------------------------------------------------------
\* C21: no insert or remove call, in any sequence of calls, applies a
\* rotation to a node whose pivot child is absent: rightRotation(n) runs
\* only with n.left present and leftRotation(n) only with n.right present,
\* the inner rotation of a double rotation included.  rightRotation and
\* leftRotation yield Fault exactly when their pivot child is Null, and
\* insert and remove hand a Fault up to the caller, so the call has met
\* such a rotation exactly when it leaves root = Fault.
C21_RotationPivotPresent ==
    op \in {"insert", "remove"} => root # Fault

\* ---------------------------------------------------------------------
\* C22: the explicit-stack traversal loop of generateDisplayGrid ends by a
\* break for every non-empty tree, and whenever an iteration pops the stack
\* and reads its top at depth > 0 the stack holds an element to pop and
\* another one to read (at least two elements before the pop).
C22_TraversalTerminates ==
    /\ [](Leaving => Len(traversal.stack) >= 2)
    /\ (Walking ~> Finished)

\* The loop has ended on a tree whose traversal popped the stack below the
\* root more than once.
C22_Witness ==
    /\ Finished
    /\ traversal.pops >= 2

====
